---- MODULE Spec2Model ----
(***************************************************************************)
(* A model of YouMain.py: the interactive download-and-organize session.  *)
(* Text (URLs, paths, file names, console answers) is modelled as         *)
(* sequences of one-character strings so that strip(), lower(),           *)
(* replace(), normpath(), endswith() and the URL pattern are computed     *)
(* character by character, as the code does.                              *)
(***************************************************************************)
EXTENDS Integers, Sequences, FiniteSets, TLC

(***************************************************************************)
(* Text helpers (Python str methods used by the script)                   *)
(***************************************************************************)

UpperAlpha == <<"A","B","C","D","E","F","G","H","I","J","K","L","M",
                "N","O","P","Q","R","S","T","U","V","W","X","Y","Z">>

LowerAlpha == <<"a","b","c","d","e","f","g","h","i","j","k","l","m",
                "n","o","p","q","r","s","t","u","v","w","x","y","z">>

LowerChar(c) ==
    IF \E i \in 1..26 : UpperAlpha[i] = c
    THEN LowerAlpha[CHOOSE i \in 1..26 : UpperAlpha[i] = c]
    ELSE c

\* str.lower()
Lower(s) == [i \in 1..Len(s) |-> LowerChar(s[i])]

RECURSIVE LStrip(_)
LStrip(s) == IF s # <<>> /\ Head(s) = " " THEN LStrip(Tail(s)) ELSE s

RECURSIVE RStrip(_)
RStrip(s) ==
    IF s # <<>> /\ s[Len(s)] = " " THEN RStrip(SubSeq(s, 1, Len(s) - 1)) ELSE s

\* str.strip()
Strip(s) == RStrip(LStrip(s))

\* str.replace(old, new) for one-character old and new
Replace(s, old, new) == [i \in 1..Len(s) |-> IF s[i] = old THEN new ELSE s[i]]

StartsWith(s, p) == Len(s) >= Len(p) /\ SubSeq(s, 1, Len(p)) = p

\* str.endswith(suffix)
EndsWith(s, p) == Len(s) >= Len(p) /\ SubSeq(s, Len(s) - Len(p) + 1, Len(s)) = p

Drop(s, n) == SubSeq(s, n + 1, Len(s))

\* str.split(sep) for a set of one-character separators
RECURSIVE SplitAcc(_, _, _)
SplitAcc(s, seps, cur) ==
    IF s = <<>> THEN <<cur>>
    ELSE IF Head(s) \in seps THEN <<cur>> \o SplitAcc(Tail(s), seps, <<>>)
    ELSE SplitAcc(Tail(s), seps, Append(cur, Head(s)))

Split(s, seps) == SplitAcc(s, seps, <<>>)

\* sep.join(comps)
RECURSIVE Join(_, _)
Join(comps, sep) ==
    IF comps = <<>> THEN <<>>
    ELSE IF Len(comps) = 1 THEN comps[1]
    ELSE comps[1] \o <<sep>> \o Join(Tail(comps), sep)

(***************************************************************************)
(* Module constants of YouMain.py                                         *)
(***************************************************************************)

FILE_EXTENSIONS ==
    { <<".", "w", "e", "b", "p">>, <<".", "p", "n", "g">>,
      <<".", "j", "p", "g">>, <<".", "j", "p", "e", "g">> }

YTDL_SUFFIX == <<".", "y", "t", "d", "l">>

DEFAULT_VIDEO_QUALITY == <<"b", "e", "s", "t">>

DEFAULT_AUDIO_FORMAT == <<"b", "e", "s", "t">>

DEFAULT_SUBTITLES == TRUE

\* Python's None, and a local name that has not been bound yet
None == <<"None">>

Unbound == <<"Unbound">>

(***************************************************************************)
(* is_valid_url: re.match of                                              *)
(*   ^(https?://)?(www\.)?(youtube|youtu|youtube-nocookie)\.(com|be)/.*$  *)
(* compiled without flags                                                 *)
(***************************************************************************)

Schemes == { <<>>, <<"h", "t", "t", "p", ":", "/", "/">>,
             <<"h", "t", "t", "p", "s", ":", "/", "/">> }

WwwPrefixes == { <<>>, <<"w", "w", "w", ".">> }

Hosts == { <<"y", "o", "u", "t", "u", "b", "e">>, <<"y", "o", "u", "t", "u">>,
           <<"y", "o", "u", "t", "u", "b", "e", "-", "n", "o", "c", "o", "o", "k", "i", "e">> }

Tlds == { <<"c", "o", "m">>, <<"b", "e">> }

\* ".*$": no line break, except that "$" also matches before a final one
AnyPath(rest) ==
    \A i \in 1..Len(rest) : rest[i] = "\n" => i = Len(rest)

\* the pattern applied to the characters of url exactly as given
youtube_url_pattern(url) ==
    \E sc \in Schemes, w \in WwwPrefixes, h \in Hosts, t \in Tlds :
        LET prefix == sc \o w \o h \o <<".">> \o t \o <<"/">>
        IN  StartsWith(url, prefix) /\ AnyPath(Drop(url, Len(prefix)))

is_valid_url(url) == youtube_url_pattern(url)

(***************************************************************************)
(* Paths: sanitize_file_path (os.path.normpath) and is_valid_directory    *)
(* (os.path.isdir).  is_nt is os.name == 'nt'.                            *)
(***************************************************************************)

\* the loop of normpath over the components, as a left-to-right fold
RECURSIVE NormComps(_, _, _)
NormComps(comps, acc, rooted) ==
    IF comps = <<>> THEN acc
    ELSE LET comp == Head(comps)
             rest == Tail(comps)
         IN  IF comp = <<>> \/ comp = <<".">> THEN NormComps(rest, acc, rooted)
             ELSE IF comp # <<".", ".">> THEN NormComps(rest, Append(acc, comp), rooted)
             ELSE IF acc # <<>> /\ acc[Len(acc)] # <<".", ".">>
                  THEN NormComps(rest, SubSeq(acc, 1, Len(acc) - 1), rooted)
             ELSE IF acc = <<>> /\ rooted THEN NormComps(rest, acc, rooted)
             ELSE NormComps(rest, Append(acc, comp), rooted)

\* posixpath.normpath
posix_normpath(path) ==
    IF path = <<>> THEN <<".">>
    ELSE LET slashes == IF StartsWith(path, <<"/", "/">>) /\ ~StartsWith(path, <<"/", "/", "/">>)
                        THEN <<"/", "/">>
                        ELSE IF StartsWith(path, <<"/">>) THEN <<"/">> ELSE <<>>
             joined  == slashes \o Join(NormComps(Split(path, {"/"}), <<>>, slashes # <<>>), "/")
         IN  IF joined = <<>> THEN <<".">> ELSE joined

\* ntpath.normpath for paths without a drive letter or UNC prefix
nt_normpath(path) ==
    LET p      == Replace(path, "/", "\\")
        root   == IF StartsWith(p, <<"\\">>) THEN <<"\\">> ELSE <<>>
        comps  == NormComps(Split(p, {"\\"}), <<>>, root # <<>>)
    IN  IF root = <<>> /\ comps = <<>> THEN <<".">> ELSE root \o Join(comps, "\\")

normpath(nt, path) == IF nt THEN nt_normpath(path) ELSE posix_normpath(path)

sanitize_file_path(nt, file_path) == normpath(nt, file_path)

\* os.sep
os_sep(nt) == IF nt THEN "\\" ELSE "/"

\* line 231: backslashes become "/" on nt and os.sep elsewhere
replace_backslashes(nt, file_location) ==
    IF nt THEN Replace(file_location, "\\", "/")
    ELSE Replace(file_location, "\\", os_sep(nt))

\* The directories of the modelled filesystem, by their components below the
\* working directory: ./a and ./m/b
DirIds == { <<<<"a">>>>, <<<<"m">>, <<"b">>>> }

\* how the operating system resolves a path: the separators it knows, with
\* empty and "." components skipped
PathComponents(nt, path) ==
    LET seps == IF nt THEN {"/", "\\"} ELSE {"/"}
    IN  SelectSeq(Split(path, seps), LAMBDA c : c # <<>> /\ c # <<".">>)

is_valid_directory(nt, directory) == PathComponents(nt, directory) \in DirIds

(***************************************************************************)
(* Inputs typed at the console                                            *)
(***************************************************************************)

UrlInputs ==
    { <<>>,
      <<"h", "t", "t", "p", "s", ":", "/", "/", "w", "w", "w", ".", "y", "o", "u", "t", "u", "b", "e",
        ".", "c", "o", "m", "/", "w", "a", "t", "c", "h", "?", "v", "=", "a", "b", "c", "1", "2", "3">>,
      <<" ", "y", "o", "u", "t", "u", ".", "b", "e", "/", "a", " ">>,
      <<"h", "t", "t", "p", ":", "/", "/", "y", "o", "u", "t", "u", "b", "e", "-", "n", "o", "c", "o",
        "o", "k", "i", "e", ".", "c", "o", "m", "/", "e">>,
      <<"H", "T", "T", "P", "S", ":", "/", "/", "W", "W", "W", ".", "Y", "o", "u", "T", "u", "b", "e",
        ".", "C", "O", "M", "/", "w">>,
      <<"h", "t", "t", "p", "s", ":", "/", "/", "e", "x", "a", "m", "p", "l", "e", ".", "c", "o", "m",
        "/", "x">>,
      <<"y", "o", "u", "t", "u", "b", "e", ".", "c", "o", "m">>,
      <<"y", "o", "u", "t", "u", "b", "e", "X", "c", "o", "m", "/">> }

DirInputs ==
    { <<>>, <<" ">>,
      <<"a">>, <<" ", "a", "/", " ">>, <<"a", "/", "/", "x", "/", ".", ".">>,
      <<"m", "/", "b">>, <<".", "\\", "m", "\\", "b">>,
      <<"x">>, <<"m", "/", "x">> }

\* the answers to the quality and the audio-format prompt, in pairs
FormatInputs == { << <<>>, <<" ">> >>, << <<"7", "2", "0", "p">>, <<" ", "m", "4", "a">> >> }

SubtitleInputs == { <<>>, <<" ">>, <<"y">>, <<" ", "Y", " ">>, <<"n">>, <<"N">>, <<"q">> }

RestartInputs == { <<"y">>, <<" ", "Y", " ">>, <<"n">>, <<"N">>, <<>>, <<"q">> }

(***************************************************************************)
(* The filesystem: each directory has its immediate entries (src), and a  *)
(* "thumbnails" subfolder that may not exist yet, with its entries.       *)
(***************************************************************************)

\* the listing of the spec's example (cover.jpg, video.mp4, poster.webp) with
\* the other recognized extensions, an upper-case extension and a marker file
ExampleListing ==
    { <<"c", ".", "j", "p", "g">>, <<"v", ".", "m", "p", "4">>,
      <<"p", ".", "w", "e", "b", "p">>, <<"i", ".", "p", "n", "g">>,
      <<"j", ".", "j", "p", "e", "g">>, <<"n", ".", "J", "P", "G">>,
      <<"t", ".", "y", "t", "d", "l">> }

InitialListings == { {}, ExampleListing }

\* what one call of ydl.download may leave in the directory (outtmpl,
\* writethumbnail; a marker file when a transfer was cut short)
FetchWrites ==
    { {},
      { <<"f", ".", "m", "p", "4">>, <<"f", ".", "w", "e", "b", "p">> },
      { <<"f", ".", "w", "e", "b", "p">>, <<"f", ".", "y", "t", "d", "l">> } }

\* the OSError subclasses the __main__ handlers tell apart
FsErrors == { "FileNotFoundError", "PermissionError", "OSError" }

\* deepest nesting of run -> start_again -> run explored
MaxDepth == 2

VARIABLES
    is_nt,                   \* os.name == 'nt'
    fs,                      \* the filesystem
    pc,                      \* where the session is
    depth,                   \* nesting of run() calls made by start_again
    file_location_previous,  \* run's local, None when nothing is remembered
    video_url,               \* run's local, Unbound until the first URL is read
    sanitized_location,      \* run's local
    user_options,            \* <<>> or <<options of get_user_options>>
    fetch_outcome,           \* "none", "ok" or "failed" (DownloadError) this cycle
    ans,                     \* start_again's local
    typed,                   \* the line the latest step read, None if it read none
    out,                     \* the last message the latest step printed, "" if none
    exc,                     \* the exception that reached __main__, "none" if none
    in_handler,              \* inside an except clause of __main__
    byes,                    \* times the farewell was printed
    exit_status              \* "running", "success" or "failure"

vars == << is_nt, fs, pc, depth, file_location_previous, video_url,
           sanitized_location, user_options, fetch_outcome, ans, typed, out,
           exc, in_handler, byes, exit_status >>

\* the locals of the innermost run and start_again frames
frame == << file_location_previous, video_url, sanitized_location,
            user_options, fetch_outcome, ans >>

Init ==
    /\ is_nt \in BOOLEAN
    /\ \E l \in InitialListings :
          fs = [d \in DirIds |->
                  [ src           |-> IF d = << <<"a">> >> THEN l ELSE {},
                    thumbs_exists |-> FALSE,
                    thumbs        |-> {} ]]
    /\ pc = "Start"
    /\ depth = 0
    /\ file_location_previous = None
    /\ video_url = Unbound
    /\ sanitized_location = None
    /\ user_options = <<>>
    /\ fetch_outcome = "none"
    /\ ans = None
    /\ typed = None
    /\ out = ""
    /\ exc = "none"
    /\ in_handler = FALSE
    /\ byes = 0
    /\ exit_status = "running"

\* lines 250-266: an exception raised below run() passes every run and
\* start_again frame (none has a handler around its calls) and reaches the
\* try statement of __main__; `printed` is what the raising step printed last
main_handler(e, printed) ==
    /\ exc' = e
    /\ depth' = 0
    /\ file_location_previous' = None
    /\ video_url' = Unbound
    /\ sanitized_location' = None
    /\ user_options' = <<>>
    /\ fetch_outcome' = "none"
    /\ ans' = None
    /\ CASE e = "KeyboardInterrupt" ->
               /\ out' = "Interrupted"
               /\ pc' = "Interrupted"
               /\ in_handler' = TRUE
               /\ UNCHANGED exit_status
         [] e \in {"FileNotFoundError", "PermissionError"} ->
               /\ out' = "Error"
               /\ pc' = "Close"
               /\ in_handler' = TRUE
               /\ UNCHANGED exit_status
         [] e = "OSError" ->
               /\ out' = "Error"
               /\ pc' = "Exited"
               /\ exit_status' = "success"
               /\ UNCHANGED in_handler
         [] e = "SystemExit" ->
               /\ out' = printed
               /\ pc' = "Exited"
               /\ exit_status' = "success"
               /\ UNCHANGED in_handler
         [] OTHER ->
               /\ out' = "Traceback"
               /\ pc' = "Exited"
               /\ exit_status' = "failure"
               /\ UNCHANGED in_handler

\* configure_logging, check_yt_dlp_availability, first_clear, run()
Start ==
    /\ pc = "Start"
    /\ \E r \in {"ok", "CalledProcessError", "FileNotFoundError"} :
          CASE r = "ok" ->
                  /\ pc' = "PromptUrl"
                  /\ out' = "-----------"
                  /\ UNCHANGED << depth, frame, exc, in_handler, exit_status >>
            [] r = "CalledProcessError" ->
                  main_handler("SystemExit", "yt-dlp is not installed")
            [] OTHER -> main_handler("FileNotFoundError", "")
    /\ typed' = None
    /\ UNCHANGED << is_nt, fs, byes >>

\* line 217: the URL prompt
PromptUrl ==
    /\ pc = "PromptUrl"
    /\ \E line \in UrlInputs :
          /\ typed' = line
          /\ video_url' = Strip(line)
    /\ pc' = "PromptDir"
    /\ out' = ""
    /\ UNCHANGED << is_nt, fs, depth, file_location_previous, sanitized_location,
                    user_options, fetch_outcome, ans, exc, in_handler, byes,
                    exit_status >>

\* lines 218-219: input() raised an Exception, which is logged; video_url keeps
\* whatever it was bound to
PromptUrlRaises ==
    /\ pc = "PromptUrl"
    /\ pc' = "PromptDir"
    /\ typed' = None
    /\ out' = ""
    /\ UNCHANGED << is_nt, fs, depth, frame, exc, in_handler, byes, exit_status >>

\* lines 226-229: the location that is used for the line typed
file_location_for(line, previous) ==
    IF Strip(line) = <<>> THEN previous ELSE Strip(line)

\* lines 221-232: the directory prompt, the default, the separators, sanitize
PromptDir ==
    /\ pc = "PromptDir"
    /\ \E line \in DirInputs :
          LET file_location == file_location_for(line, file_location_previous)
          IN  /\ typed' = line
              /\ IF file_location = None
                 THEN \* None has no method replace
                      main_handler("AttributeError", "")
                 ELSE /\ sanitized_location' =
                            sanitize_file_path(is_nt, replace_backslashes(is_nt, file_location))
                      /\ pc' = "Validate"
                      /\ out' = ""
                      /\ UNCHANGED << depth, file_location_previous, video_url,
                                      user_options, fetch_outcome, ans, exc, in_handler,
                                      exit_status >>
    /\ UNCHANGED << is_nt, fs, byes >>

\* validation_error with the directory check left out
validation_error_url_only(url_ok, dir_ok) ==
    IF ~url_ok THEN "Error: Invalid YouTube video URL" ELSE ""

\* lines 234-240: which of the two checks, if any, stops the iteration
validation_error(url_ok, dir_ok) ==
    IF ~url_ok THEN "Error: Invalid YouTube video URL"
    ELSE IF ~dir_ok THEN "Error: Invalid file location"
    ELSE ""

\* lines 234-242: the two checks, each printing an error and continuing
Validate ==
    /\ pc = "Validate"
    /\ IF video_url = Unbound
       THEN main_handler("UnboundLocalError", "")
       ELSE LET error == validation_error(is_valid_url(video_url),
                                          is_valid_directory(is_nt, sanitized_location))
            IN  /\ out' = error
                /\ pc' = IF error # "" THEN "PromptUrl" ELSE "GetOptions"
                /\ UNCHANGED << depth, frame, exc, in_handler, exit_status >>
    /\ typed' = None
    /\ UNCHANGED << is_nt, fs, byes >>

\* "x or default" on text: the empty string is falsy
OrDefault(text, default) == IF text = <<>> THEN default ELSE text

\* line 95: the subtitles expression
subtitles_option(line) == (Lower(Strip(line)) = <<"y">>) \/ DEFAULT_SUBTITLES

\* get_user_options
get_user_options(q, a, s) ==
    [ video_quality |-> OrDefault(Strip(q), DEFAULT_VIDEO_QUALITY),
      audio_format  |-> OrDefault(Strip(a), DEFAULT_AUDIO_FORMAT),
      subtitles     |-> subtitles_option(s) ]

\* line 242, the argument get_user_options(): three prompts
GetOptions ==
    /\ pc = "GetOptions"
    /\ \E f \in FormatInputs, s \in SubtitleInputs :
          /\ user_options' = << get_user_options(f[1], f[2], s) >>
          /\ typed' = s
    /\ pc' = "Fetch"
    /\ out' = ""
    /\ UNCHANGED << is_nt, fs, depth, file_location_previous, video_url,
                    sanitized_location, fetch_outcome, ans, exc, in_handler,
                    byes, exit_status >>

\* the directory a valid path names
DirOf(nt, path) == PathComponents(nt, path)

\* download_video_with_options: the library call returns or raises
\* DownloadError, which is caught and printed
download_video_with_options ==
    /\ pc = "Fetch"
    /\ \E raised \in BOOLEAN, written \in FetchWrites :
          /\ fs' = [fs EXCEPT ![DirOf(is_nt, sanitized_location)].src = @ \cup written]
          /\ fetch_outcome' = IF raised THEN "failed" ELSE "ok"
          /\ out' = IF raised THEN "Error: download" ELSE ""
    /\ pc' = "MoveThumbnails"
    /\ typed' = None
    /\ UNCHANGED << is_nt, depth, file_location_previous, video_url, sanitized_location,
                    user_options, ans, exc, in_handler, byes, exit_status >>

\* str.endswith(tuple of suffixes)
endswith_any(file, suffixes) == \E x \in suffixes : EndsWith(file, x)

\* files_to_move testing one suffix only, endswith('.jpg')
files_to_move_jpg_only(listing) ==
    { file \in listing : EndsWith(file, <<".", "j", "p", "g">>) }

\* line 111
files_to_move(listing) == { file \in listing : endswith_any(file, FILE_EXTENSIONS) }

\* line 127
files_to_remove(listing) == { file \in listing : EndsWith(file, YTDL_SUFFIX) }

\* the filesystem after `moved` went from the directory into its thumbnails
\* folder, which exists once created
AfterMove(d, created, moved) ==
    [fs EXCEPT ![d] = [ src           |-> @.src \ moved,
                        thumbs_exists |-> @.thumbs_exists \/ created,
                        thumbs        |-> @.thumbs \cup moved ]]

\* move_thumbnails runs to its end
move_thumbnails ==
    /\ pc = "MoveThumbnails"
    /\ LET d    == DirOf(is_nt, sanitized_location)
           todo == files_to_move(fs[d].src)
       IN  /\ fs' = AfterMove(d, TRUE, todo)
           /\ out' = IF todo # {} THEN "Thumbnail moved" ELSE ""
    /\ pc' = "RemoveYtdl"
    /\ typed' = None
    /\ UNCHANGED << is_nt, depth, frame, exc, in_handler, byes, exit_status >>

\* move_thumbnails raises: in makedirs (nothing created), in listdir, or in
\* shutil.move after some of the files, in no particular order, were moved
move_thumbnails_raises ==
    /\ pc = "MoveThumbnails"
    /\ LET d    == DirOf(is_nt, sanitized_location)
           todo == files_to_move(fs[d].src)
       IN  \E e \in FsErrors, created \in BOOLEAN, moved \in SUBSET todo :
              /\ created => ~fs[d].thumbs_exists
              /\ ~created /\ ~fs[d].thumbs_exists => moved = {}
              /\ moved # todo \/ todo = {}
              /\ fs' = AfterMove(d, created, moved)
              /\ main_handler(e, "")
    /\ typed' = None
    /\ UNCHANGED << is_nt, byes >>

\* lines 244-246: remove_ytdl_files runs to its end, the console is cleared
\* and start_again is entered
remove_ytdl_files ==
    /\ pc = "RemoveYtdl"
    /\ LET d == DirOf(is_nt, sanitized_location)
       IN  fs' = [fs EXCEPT ![d].src = @ \ files_to_remove(@)]
    /\ out' = ""
    /\ ans' = None
    /\ pc' = "OfferRestart"
    /\ typed' = None
    /\ UNCHANGED << is_nt, depth, file_location_previous, video_url, sanitized_location,
                    user_options, fetch_outcome, exc, in_handler, byes, exit_status >>

\* remove_ytdl_files raises: in listdir, or in os.remove after some deletions
remove_ytdl_files_raises ==
    /\ pc = "RemoveYtdl"
    /\ LET d    == DirOf(is_nt, sanitized_location)
           todo == files_to_remove(fs[d].src)
       IN  \E e \in FsErrors, removed \in SUBSET todo :
              /\ removed # todo \/ todo = {}
              /\ fs' = [fs EXCEPT ![d].src = @ \ removed]
              /\ main_handler(e, "")
    /\ typed' = None
    /\ UNCHANGED << is_nt, byes >>

\* start_again_branch with the exit branch testing for "no" instead of "n"
start_again_branch_no(answer) ==
    IF answer = <<"y">> THEN "run"
    ELSE IF answer = <<"n", "o">> THEN "close"
    ELSE "again"

\* lines 191-199: what start_again does with the answer
start_again_branch(answer) ==
    IF answer = <<"y">> THEN "run"
    ELSE IF answer = <<"n">> THEN "close"
    ELSE "again"

\* next_default handing on the default the finished run() started with
next_default_stale(previous, location) == previous

\* lines 246, 194, 213: the default the next run() starts with
next_default(previous, location) == location

\* start_again: one pass of its loop
start_again ==
    /\ pc = "OfferRestart"
    /\ \E line \in RestartInputs :
          LET answer == Lower(Strip(line))
              branch == start_again_branch(answer)
          IN  /\ typed' = line
              /\ ans' = answer
              /\ CASE branch = "run" ->
                        /\ depth < MaxDepth
                        /\ depth' = depth + 1
                        /\ out' = ""
                        /\ pc' = "PromptUrl"
                        /\ file_location_previous' =
                              next_default(file_location_previous, sanitized_location)
                        /\ video_url' = Unbound
                        /\ sanitized_location' = None
                        /\ user_options' = <<>>
                        /\ fetch_outcome' = "none"
                   [] branch = "close" ->
                        /\ out' = ""
                        /\ pc' = "Close"
                        /\ UNCHANGED << depth, file_location_previous, video_url,
                                        sanitized_location, user_options, fetch_outcome >>
                   [] OTHER ->
                        /\ out' = "Please respond with 'Y' or 'N'"
                        /\ pc' = "OfferRestart"
                        /\ UNCHANGED << depth, file_location_previous, video_url,
                                        sanitized_location, user_options, fetch_outcome >>
    /\ UNCHANGED << is_nt, fs, exc, in_handler, byes, exit_status >>

\* close: the farewell, then sys.exit(); SystemExit raised inside an except
\* clause of __main__ ends the process at once
close ==
    /\ pc = "Close"
    /\ byes' = byes + 1
    /\ IF in_handler
       THEN /\ pc' = "Exited"
            /\ exit_status' = "success"
            /\ out' = "Bye"
            /\ UNCHANGED << depth, frame, exc, in_handler >>
       ELSE main_handler("SystemExit", "Bye")
    /\ typed' = None
    /\ UNCHANGED << is_nt, fs >>

\* lines 256-257: while True: clear_console()
idle_loop ==
    /\ pc = "Interrupted"
    /\ out' = ""
    /\ typed' = None
    /\ UNCHANGED << is_nt, fs, pc, depth, frame, exc, in_handler, byes, exit_status >>

\* Ctrl-C: KeyboardInterrupt is raised wherever the session is; inside an
\* except clause of __main__ nothing catches it
KeyboardInterrupt ==
    /\ pc # "Exited"
    /\ IF in_handler
       THEN /\ exc' = "KeyboardInterrupt"
            /\ pc' = "Exited"
            /\ exit_status' = "failure"
            /\ out' = "Traceback"
            /\ UNCHANGED << depth, frame, in_handler >>
       ELSE main_handler("KeyboardInterrupt", "")
    /\ typed' = None
    /\ UNCHANGED << is_nt, fs, byes >>

Next ==
    \/ Start
    \/ PromptUrl
    \/ PromptUrlRaises
    \/ PromptDir
    \/ Validate
    \/ GetOptions
    \/ download_video_with_options
    \/ move_thumbnails
    \/ move_thumbnails_raises
    \/ remove_ytdl_files
    \/ remove_ytdl_files_raises
    \/ start_again
    \/ close
    \/ idle_loop
    \/ KeyboardInterrupt

Spec == Init /\ [][Next]_vars

(***************************************************************************)
(* Properties                                                             *)
(***************************************************************************)

\* the step just taken was a KeyboardInterrupt
Interrupting == exc' = "KeyboardInterrupt"

\* the session is between validation and the restart prompt
Working == {"GetOptions", "Fetch", "MoveThumbnails", "RemoveYtdl"}

\* the URL and the directory of the current iteration both pass their checks
InputsValid(url, location) ==
    /\ url # Unbound
    /\ is_valid_url(url)
    /\ location # None
    /\ is_valid_directory(is_nt, location)

\* C1: after get_user_options, subtitles is true when the trimmed, lower-cased
\* answer is "y" or blank and false for every other answer, "n" included.
SubtitlesFollowAnswer ==
    (pc = "Fetch" /\ typed # None) =>
        (user_options[1].subtitles <=> Lower(Strip(typed)) \in { <<"y">>, <<>> })

\* C2: options are collected, the fetch is made and files are moved or
\* deleted only in an iteration whose URL passed is_valid_url and whose
\* sanitized directory passed is_valid_directory; an iteration that fails
\* either check goes back to the prompts with the filesystem and the options
\* untouched.
FetchOnlyAfterValidation ==
    [][ /\ pc' \in Working => InputsValid(video_url', sanitized_location')
        /\ fs' # fs => pc \in Working /\ InputsValid(video_url, sanitized_location)
        /\ (user_options' # user_options /\ user_options' # <<>>) =>
              pc = "GetOptions" /\ InputsValid(video_url, sanitized_location)
        /\ (pc = "Validate" /\ ~InputsValid(video_url, sanitized_location)) =>
              pc' \notin Working /\ fs' = fs /\ user_options' = user_options
      ]_vars

\* C2 witness: in a cycle after a restart, a valid URL with a directory that
\* does not exist was rejected and the session is back at the prompts.
RejectedDirectoryBackAtPrompt ==
    /\ pc = "PromptUrl"
    /\ depth = 1
    /\ out = "Error: Invalid file location"
    /\ is_valid_url(video_url)
    /\ ~is_valid_directory(is_nt, sanitized_location)

\* C3: every line typed at the directory prompt, a blank one with nothing
\* remembered included, is taken to validation, and a failed validation prints
\* an error and returns to the URL prompt with the remembered directory
\* unchanged and the session still running.
InvalidInputReturnsToPrompting ==
    [][ /\ (pc = "PromptDir" /\ ~Interrupting) =>
              pc' = "Validate" /\ exit_status' = "running"
        /\ (pc = "Validate" /\ video_url # Unbound /\ ~Interrupting
              /\ ~InputsValid(video_url, sanitized_location)) =>
              /\ pc' = "PromptUrl"
              /\ out' \in {"Error: Invalid YouTube video URL", "Error: Invalid file location"}
              /\ file_location_previous' = file_location_previous
              /\ exit_status' = "running"
      ]_vars

\* C4: a step of the Organizing state (move_thumbnails, remove_ytdl_files)
\* never ends the session: it leads on to the cleaner or to the restart prompt.
OrganizingErrorsNotFatal ==
    [][ (pc \in {"MoveThumbnails", "RemoveYtdl"} /\ ~Interrupting) =>
            pc' \in {"RemoveYtdl", "OfferRestart"} /\ exit_status' = "running"
      ]_vars

\* C5: after a fetch, failed ones included, the session moves thumbnails,
\* then removes marker files, then offers the restart.
FailedFetchStillReachesRestart ==
    [][ /\ (pc = "Fetch" /\ ~Interrupting) => pc' = "MoveThumbnails"
        /\ (fetch_outcome = "failed" /\ pc = "MoveThumbnails" /\ ~Interrupting) =>
              pc' = "RemoveYtdl"
        /\ (fetch_outcome = "failed" /\ pc = "RemoveYtdl" /\ ~Interrupting) =>
              pc' = "OfferRestart"
      ]_vars

\* C6: once the interruption notice is printed, what follows is a clean exit.
InterruptThenCleanExit ==
    [][ pc = "Interrupted" => pc' = "Exited" /\ exit_status' = "success" ]_vars

\* C7: the answer "n" at the restart prompt leads to close, which prints the
\* farewell once and exits with success status; nothing happens after the
\* exit, so no prompt is issued again. This holds at every nesting depth.
AnswerNoTerminatesOnce ==
    [][ /\ (pc = "OfferRestart" /\ ans' = <<"n">>) => pc' = "Close" /\ ~in_handler'
        /\ (pc = "Close" /\ ~in_handler /\ ~Interrupting) =>
              /\ pc' = "Exited"
              /\ exit_status' = "success"
              /\ out' = "Bye"
              /\ byes' = 1
        /\ pc = "Exited" => FALSE
      ]_vars

\* C7 witness: "n" was answered in a nested run and close is about to run.
AnsweredNoWhenNested ==
    pc = "Close" /\ ~in_handler /\ ans = <<"n">> /\ depth >= 1 /\ byes = 0

\* C8: at the restart prompt an answer other than "y" or "n" asks again and
\* changes nothing else; "y" starts the prompts again with the directory of
\* the finished cycle as the default; a blank directory line then resolves to
\* that default; and the default is always a directory that passes validation.
RestartRemembersDirectory ==
    [][ /\ (pc = "OfferRestart" /\ typed' # None /\ ans' \notin { <<"y">>, <<"n">> }) =>
              /\ pc' = "OfferRestart"
              /\ UNCHANGED << fs, depth, file_location_previous, video_url,
                              sanitized_location, user_options, fetch_outcome,
                              byes, exit_status >>
        /\ (pc = "OfferRestart" /\ typed' # None /\ ans' = <<"y">>) =>
              /\ pc' = "PromptUrl"
              /\ file_location_previous' = sanitized_location
        /\ (pc = "PromptDir" /\ typed' # None /\ Strip(typed') = <<>>
              /\ file_location_previous # None) =>
              /\ pc' = "Validate"
              /\ sanitized_location' = file_location_previous
        /\ file_location_previous' # None =>
              is_valid_directory(is_nt, file_location_previous')
      ]_vars

\* C8 witness: on nt, after a restart from m\b, a blank directory line was
\* resolved to the remembered m\b.
BlankLineReusedDefault ==
    /\ pc = "Validate"
    /\ is_nt
    /\ typed # None
    /\ Strip(typed) = <<>>
    /\ file_location_previous = <<"m", "\\", "b">>
    /\ sanitized_location = file_location_previous

\* the extensions the claim lists
ImageExtensions ==
    { <<"w", "e", "b", "p">>, <<"p", "n", "g">>, <<"j", "p", "g">>, <<"j", "p", "e", "g">> }

HasImageExtension(name) == \E e \in ImageExtensions : EndsWith(name, <<".">> \o e)

\* C9: when move_thumbnails completes, every entry of the directory with a
\* recognized image extension is in thumbnails under its name and no longer in
\* the directory, every other entry is still in the directory and not in
\* thumbnails, and the thumbnails folder exists.
ThumbnailsOrganized ==
    [][ (pc = "MoveThumbnails" /\ pc' = "RemoveYtdl") =>
            LET d == DirOf(is_nt, sanitized_location)
            IN  /\ fs'[d].thumbs_exists
                /\ \A name \in fs[d].src :
                      IF HasImageExtension(name)
                      THEN name \in fs'[d].thumbs /\ name \notin fs'[d].src
                      ELSE name \in fs'[d].src /\ name \notin fs'[d].thumbs
                /\ \A other \in DirIds \ {d} : fs'[other] = fs[other]
      ]_vars

\* C9 witness: the example listing was organized: c.jpg and p.webp are in
\* thumbnails, v.mp4 stayed.
ExampleOrganized ==
    /\ pc = "RemoveYtdl"
    /\ LET a == fs[<< <<"a">> >>]
       IN  /\ a.thumbs_exists
           /\ { <<"c", ".", "j", "p", "g">>, <<"p", ".", "w", "e", "b", "p">> } \subseteq a.thumbs
           /\ <<"c", ".", "j", "p", "g">> \notin a.src
           /\ <<"v", ".", "m", "p", "4">> \in a.src
           /\ <<"v", ".", "m", "p", "4">> \notin a.thumbs

\* C10: is_valid_url accepts exactly the strings that match the pattern when
\* letter case is ignored.
UrlCheckIgnoresCase ==
    (pc = "PromptDir" /\ video_url # Unbound) =>
        (is_valid_url(video_url) <=> youtube_url_pattern(Lower(video_url)))

====
